---- MODULE Spec2Model ----
(***************************************************************************)
(* Silent Cry AI service (backend/ai-service/app.py): the POST /analyze    *)
(* request pipeline.  Scores and thresholds are floats in the code; here   *)
(* they are integers counting thousandths (0.75 is 750), which keeps every *)
(* comparison of the code exact.                                           *)
(***************************************************************************)
EXTENDS Integers, Sequences, FiniteSets, TLC

VARIABLES
    cfg,           \* Config.MIN_AUDIO_SCORE / MIN_VIDEO_SCORE, read from the environment at import
    pc,            \* position of the request in the pipeline
    req,           \* the request being served: credentials and the two uploaded files
    auth_answer,   \* what the auth delegate did with this request's GET /validate
    authCalls,     \* GET /validate calls issued for this request
    audio_score,   \* local audio_score of analyze (-1: not assigned)
    video_score,   \* local video_score of analyze (-1: not assigned)
    trace,         \* steps executed for this request, each with its outcome
    response,      \* the HTTP response of this request
    apc,           \* position of the audio path (concurrent variant only)
    vpc            \* position of the video path (concurrent variant only)

vars == <<cfg, pc, req, auth_answer, authCalls, audio_score, video_score,
          trace, response, apc, vpc>>

----------------------------------------------------------------------------
(* Config *)

DEFAULT_MIN_AUDIO_SCORE == 700
DEFAULT_MIN_VIDEO_SCORE == 500
ALLOWED_AUDIO_TYPES == {"audio/wav", "audio/x-wav", "audio/mpeg"}
ALLOWED_VIDEO_TYPES == {"video/mp4", "image/jpeg", "image/png"}
MAX_FILE_SIZE == 10 * 1024 * 1024

(* Stub scores and the brightness limit of analyze_video *)
AUDIO_STUB_SCORE_low == 750 - 100
AUDIO_STUB_SCORE == 750
VIDEO_DARK_SCORE == 600
VIDEO_BRIGHT_SCORE == 200
BRIGHTNESS_LIMIT == 100

(* HTTP statuses *)
HTTP_200_OK == 200
HTTP_400_BAD_REQUEST == 400
HTTP_401_UNAUTHORIZED == 401
HTTP_403_FORBIDDEN == 403
HTTP_413_REQUEST_ENTITY_TOO_LARGE == 413
HTTP_500_INTERNAL_SERVER_ERROR == 500
HTTP_503_SERVICE_UNAVAILABLE == 503

----------------------------------------------------------------------------
(* Bounds of the model *)

\* sizes are drawn from 0 and MAX_FILE_SIZE - SizeSlack .. MAX_FILE_SIZE + SizeSlack
SizeSlack == 1

Sizes == {0} \cup ((MAX_FILE_SIZE - SizeSlack) .. (MAX_FILE_SIZE + SizeSlack))

\* declared content types: every allowed one, and one that is in neither list
ContentTypes == ALLOWED_AUDIO_TYPES \cup ALLOWED_VIDEO_TYPES \cup {"text/plain"}

\* what reading and decoding a payload does: read() raises, imdecode returns
\* None, or the image decodes with the given pixel mean
PixelMeans == {"mean99", "mean100"}
AudioPayloads == {"io_error", "bytes"}
VideoPayloads == {"io_error", "not_image"} \cup PixelMeans

AudioFiles == [content_type : ContentTypes, size : Sizes, payload : AudioPayloads]

\* an empty payload never decodes to an image
VideoFiles ==
    {f \in [content_type : ContentTypes, size : Sizes, payload : VideoPayloads] :
        f.size = 0 => f.payload \notin PixelMeans}

\* Authorization header: absent, another scheme, or "Bearer <token>"
Credentials == {"missing", "basic", "bearer"}

Requests == [creds : Credentials, audio : AudioFiles, video : VideoFiles]

\* MIN_AUDIO_SCORE and MIN_VIDEO_SCORE as the environment may set them
AudioThresholdEnv == {DEFAULT_MIN_AUDIO_SCORE, 750}
VideoThresholdEnv == {DEFAULT_MIN_VIDEO_SCORE, 600}
Configs == [MIN_AUDIO_SCORE : AudioThresholdEnv, MIN_VIDEO_SCORE : VideoThresholdEnv]

DefaultConfig ==
    [MIN_AUDIO_SCORE |-> DEFAULT_MIN_AUDIO_SCORE, MIN_VIDEO_SCORE |-> DEFAULT_MIN_VIDEO_SCORE]

\* what the delegate does with GET /validate: answers with a status, does not
\* answer within the timeout, or cannot be reached
DelegateAnswers ==
    {[kind |-> "response", status |-> s] : s \in {200, 401, 403, 500}}
        \cup {[kind |-> "Timeout", status |-> 0], [kind |-> "ConnectionError", status |-> 0]}

NoAnswer == [kind |-> "none", status |-> 0]

----------------------------------------------------------------------------
(* Exceptions and responses *)

NoExc == [kind |-> "none", status |-> 0, detail |-> ""]

HTTPException(status_code, detail) ==
    [kind |-> "HTTPException", status |-> status_code, detail |-> detail]

\* any exception that is not an HTTPException (ValueError, cv2.error, OSError, ...)
Exception(msg) == [kind |-> "Exception", status |-> 0, detail |-> msg]

NoResponse == [status |-> 0, detail |-> "", verdict |-> <<>>]

\* FastAPI's answer to an HTTPException leaving the handler or a dependency
ErrorResponse(exc) == [status |-> exc.status, detail |-> exc.detail, verdict |-> <<>>]

\* Starlette's answer to any other exception leaving the application
Respond(exc) ==
    IF exc.kind = "HTTPException"
    THEN ErrorResponse(exc)
    ELSE [status |-> HTTP_500_INTERNAL_SERVER_ERROR, detail |-> "Internal Server Error",
          verdict |-> <<>>]

Result(exc, value) == [exc |-> exc, value |-> value]

----------------------------------------------------------------------------
(* security = HTTPBearer(): the dependency verify_token depends on.  With   *)
(* auto_error left at its default it rejects a request that carries no     *)
(* bearer credentials itself, and verify_token never runs.  The status it  *)
(* rejects with is FastAPI's, and differs between FastAPI releases: 403    *)
(* (HTTP_403_FORBIDDEN) up to 0.121, 401 from 0.122 on.  The repository    *)
(* pins no release, so both are outcomes of the build.                     *)
NotAuthenticatedStatuses == {HTTP_403_FORBIDDEN, HTTP_401_UNAUTHORIZED}

security(creds, st) ==
    IF creds = "bearer"
    THEN NoExc
    ELSE HTTPException(st, "Not authenticated")

(* verify_token: the delegate's answer to GET /validate, mapped to the      *)
(* exception verify_token leaves with.  The 401 is raised inside the try   *)
(* but is no RequestException, so the except clause lets it through.       *)
verify_token_unhandled(answer) ==
    IF answer.kind = "response"
    THEN IF answer.status # HTTP_200_OK
         THEN HTTPException(HTTP_401_UNAUTHORIZED, "Token invalide")
         ELSE NoExc
    ELSE Exception("RequestException")

verify_token(answer) ==
    IF answer.kind = "response"
    THEN IF answer.status # HTTP_200_OK
         THEN HTTPException(HTTP_401_UNAUTHORIZED, "Token invalide")
         ELSE NoExc
    ELSE HTTPException(HTTP_503_SERVICE_UNAVAILABLE, "Service d'authentification indisponible")

(* validate_file: the type check of the expected modality, then the size   *)
(* check.                                                                  *)
validate_file_sizeFirst(file, expected_type) ==
    IF file.size > MAX_FILE_SIZE
    THEN HTTPException(HTTP_413_REQUEST_ENTITY_TOO_LARGE, "Fichier trop volumineux")
    ELSE IF expected_type = "audio" /\ file.content_type \notin ALLOWED_AUDIO_TYPES
    THEN HTTPException(HTTP_400_BAD_REQUEST, "Type audio non supporte")
    ELSE IF expected_type = "video" /\ file.content_type \notin ALLOWED_VIDEO_TYPES
    THEN HTTPException(HTTP_400_BAD_REQUEST, "Type video/image non supporte")
    ELSE NoExc

validate_file_sizeInclusive(file, expected_type) ==
    IF expected_type = "audio" /\ file.content_type \notin ALLOWED_AUDIO_TYPES
    THEN HTTPException(HTTP_400_BAD_REQUEST, "Type audio non supporte")
    ELSE IF expected_type = "video" /\ file.content_type \notin ALLOWED_VIDEO_TYPES
    THEN HTTPException(HTTP_400_BAD_REQUEST, "Type video/image non supporte")
    ELSE IF file.size >= MAX_FILE_SIZE
    THEN HTTPException(HTTP_413_REQUEST_ENTITY_TOO_LARGE, "Fichier trop volumineux")
    ELSE NoExc

validate_file_noSizeCheck(file, expected_type) ==
    IF expected_type = "audio" /\ file.content_type \notin ALLOWED_AUDIO_TYPES
    THEN HTTPException(HTTP_400_BAD_REQUEST, "Type audio non supporte")
    ELSE IF expected_type = "video" /\ file.content_type \notin ALLOWED_VIDEO_TYPES
    THEN HTTPException(HTTP_400_BAD_REQUEST, "Type video/image non supporte")
    ELSE NoExc

validate_file(file, expected_type) ==
    IF expected_type = "audio" /\ file.content_type \notin ALLOWED_AUDIO_TYPES
    THEN HTTPException(HTTP_400_BAD_REQUEST, "Type audio non supporte")
    ELSE IF expected_type = "video" /\ file.content_type \notin ALLOWED_VIDEO_TYPES
    THEN HTTPException(HTTP_400_BAD_REQUEST, "Type video/image non supporte")
    ELSE IF file.size > MAX_FILE_SIZE
    THEN HTTPException(HTTP_413_REQUEST_ENTITY_TOO_LARGE, "Fichier trop volumineux")
    ELSE NoExc

(* analyze_audio after validate_file: await audio.read(), return 0.75 *)
audio_read_and_score(audio) ==
    IF audio.payload = "io_error"
    THEN Result(Exception("read failed"), -1)
    ELSE Result(NoExc, AUDIO_STUB_SCORE)

(* analyze_video after validate_file: await video.read(), cv2.imdecode,    *)
(* 0.6 if np.mean(img) < 100 else 0.2                                      *)
pixel_mean(payload) == IF payload = "mean99" THEN 99 ELSE 100

video_read_and_score(video) ==
    IF video.payload = "io_error"
    THEN Result(Exception("read failed"), -1)
    ELSE IF video.payload = "not_image"
    THEN Result(Exception("Impossible de decoder l'image/video"), -1)
    ELSE Result(NoExc, IF pixel_mean(video.payload) < BRIGHTNESS_LIMIT
                       THEN VIDEO_DARK_SCORE
                       ELSE VIDEO_BRIGHT_SCORE)

(* the except clauses of analyze_audio, analyze_video and analyze: an      *)
(* HTTPException is re-raised, anything else becomes a 500                 *)
analyze_audio_except_swallow(exc) == NoExc

analyze_audio_except(exc) ==
    IF exc.kind = "HTTPException"
    THEN exc
    ELSE HTTPException(HTTP_500_INTERNAL_SERVER_ERROR, "Erreur lors de l'analyse audio")

analyze_video_except(exc) ==
    IF exc.kind = "HTTPException"
    THEN exc
    ELSE HTTPException(HTTP_500_INTERNAL_SERVER_ERROR, "Erreur lors de l'analyse video")

analyze_except(exc) ==
    IF exc.kind = "HTTPException"
    THEN exc
    ELSE HTTPException(HTTP_500_INTERNAL_SERVER_ERROR, "Erreur interne du serveur")

(* analyze_audio and analyze_video as whole calls *)
analyze_audio(audio) ==
    LET v == validate_file(audio, "audio")
        r == IF v # NoExc THEN Result(v, -1) ELSE audio_read_and_score(audio)
    IN  IF r.exc = NoExc THEN r ELSE Result(analyze_audio_except(r.exc), -1)

analyze_video(video) ==
    LET v == validate_file(video, "video")
        r == IF v # NoExc THEN Result(v, -1) ELSE video_read_and_score(video)
    IN  IF r.exc = NoExc THEN r ELSE Result(analyze_video_except(r.exc), -1)

(* round(x, 2) on thousandths.  Python rounds the exact binary value, to    *)
(* even on a tie; a thousandth ending in 5 is an exact tie only when it is *)
(* a multiple of 0.125, and those are the only ties the model draws.       *)
round2(x) ==
    LET q == x \div 10
        r == x % 10
    IN  IF r < 5 THEN q * 10
        ELSE IF r > 5 THEN (q + 1) * 10
        ELSE IF q % 2 = 0 THEN q * 10 ELSE (q + 1) * 10

(* the "alert" expression of analyze *)
alert_rounded(a_score, v_score, config) ==
    round2(a_score) > config.MIN_AUDIO_SCORE \/ round2(v_score) > config.MIN_VIDEO_SCORE

alert(a_score, v_score, config) ==
    a_score > config.MIN_AUDIO_SCORE \/ v_score > config.MIN_VIDEO_SCORE

(* the dict analyze returns *)
verdict(a_score, v_score, config, audio, video) ==
    [alert |-> alert(a_score, v_score, config),
     scores |-> [audio |-> round2(a_score), video |-> round2(v_score)],
     thresholds |-> [audio |-> config.MIN_AUDIO_SCORE, video |-> config.MIN_VIDEO_SCORE],
     metadata |-> [audio_type |-> audio.content_type, video_type |-> video.content_type]]

OkResponse(v) == [status |-> HTTP_200_OK, detail |-> "", verdict |-> <<v>>]

(* analyze, the handler as a whole once its dependencies have passed:      *)
(* the audio call, then the video call, then the verdict                   *)
analyze_videoFirst(request, config) ==
    LET v == analyze_video(request.video)
        a == analyze_audio(request.audio)
    IN  IF v.exc # NoExc THEN ErrorResponse(analyze_except(v.exc))
        ELSE IF a.exc # NoExc THEN ErrorResponse(analyze_except(a.exc))
        ELSE OkResponse(verdict(a.value, v.value, config, request.audio, request.video))

analyze(request, config) ==
    LET a == analyze_audio(request.audio)
        v == analyze_video(request.video)
    IN  IF a.exc # NoExc THEN ErrorResponse(analyze_except(a.exc))
        ELSE IF v.exc # NoExc THEN ErrorResponse(analyze_except(v.exc))
        ELSE OkResponse(verdict(a.value, v.value, config, request.audio, request.video))

----------------------------------------------------------------------------
(* The request pipeline of POST /analyze, one action per step.  FastAPI    *)
(* solves the dependency verify_token (and its own dependency, security)   *)
(* before it calls analyze; analyze awaits analyze_audio, then             *)
(* analyze_video, and each of the two validates its file before it awaits  *)
(* the file's read().                                                      *)

NoFile == [content_type |-> "", size |-> 0, payload |-> ""]
NoRequest == [creds |-> "", audio |-> NoFile, video |-> NoFile]

Step(name, ok) == [step |-> name, ok |-> ok]

\* an exception raised in analyze_audio / analyze_video on its way through
\* the function's except clauses and then analyze's
Propagate(inner) == IF inner = NoExc THEN NoExc ELSE analyze_except(inner)

Init ==
    /\ cfg \in Configs
    /\ pc = "idle"
    /\ req = NoRequest
    /\ auth_answer = NoAnswer
    /\ authCalls = 0
    /\ audio_score = -1
    /\ video_score = -1
    /\ trace = <<>>
    /\ response = NoResponse
    /\ apc = "-"
    /\ vpc = "-"

Receive ==
    /\ pc = "idle"
    /\ \E r \in Requests : req' = r
    /\ pc' = "security"
    /\ UNCHANGED <<cfg, auth_answer, authCalls, audio_score, video_score, trace,
                   response, apc, vpc>>

\* Depends(security)
HTTPBearerCall ==
    /\ pc = "security"
    /\ \E st \in NotAuthenticatedStatuses :
          LET e == security(req.creds, st)
          IN  /\ trace' = Append(trace, Step("security", e = NoExc))
              /\ IF e = NoExc
                 THEN pc' = "verify_token" /\ UNCHANGED response
                 ELSE pc' = "responded" /\ response' = Respond(e)
    /\ UNCHANGED <<cfg, req, auth_answer, authCalls, audio_score, video_score, apc, vpc>>

\* Depends(verify_token): one requests.get, whatever the delegate does with it
VerifyToken ==
    /\ pc = "verify_token"
    /\ \E answer \in DelegateAnswers :
          LET e == verify_token(answer)
          IN  /\ auth_answer' = answer
              /\ authCalls' = authCalls + 1
              /\ trace' = Append(trace, Step("verify_token", e = NoExc))
              /\ IF e = NoExc
                 THEN pc' = "validate_audio" /\ UNCHANGED response
                 ELSE pc' = "responded" /\ response' = Respond(e)
    /\ UNCHANGED <<cfg, req, audio_score, video_score, apc, vpc>>

\* analyze_audio: validate_file(audio, "audio")
AudioValidate ==
    /\ pc = "validate_audio"
    /\ LET raw == validate_file(req.audio, "audio")
           e == IF raw = NoExc THEN NoExc ELSE Propagate(analyze_audio_except(raw))
       IN  /\ trace' = Append(trace, Step("validate_audio", raw = NoExc))
           /\ IF e = NoExc
              THEN pc' = "score_audio" /\ UNCHANGED response
              ELSE pc' = "responded" /\ response' = Respond(e)
    /\ UNCHANGED <<cfg, req, auth_answer, authCalls, audio_score, video_score, apc, vpc>>

\* analyze_audio: await audio.read(); return 0.75
AudioScore ==
    /\ pc = "score_audio"
    /\ LET r == audio_read_and_score(req.audio)
           e == IF r.exc = NoExc THEN NoExc ELSE Propagate(analyze_audio_except(r.exc))
       IN  /\ trace' = Append(trace, Step("score_audio", r.exc = NoExc))
           /\ IF e = NoExc
              THEN pc' = "validate_video" /\ audio_score' = r.value /\ UNCHANGED response
              ELSE pc' = "responded" /\ response' = Respond(e) /\ UNCHANGED audio_score
    /\ UNCHANGED <<cfg, req, auth_answer, authCalls, video_score, apc, vpc>>

\* analyze_video: validate_file(video, "video")
VideoValidate ==
    /\ pc = "validate_video"
    /\ LET raw == validate_file(req.video, "video")
           e == IF raw = NoExc THEN NoExc ELSE Propagate(analyze_video_except(raw))
       IN  /\ trace' = Append(trace, Step("validate_video", raw = NoExc))
           /\ IF e = NoExc
              THEN pc' = "score_video" /\ UNCHANGED response
              ELSE pc' = "responded" /\ response' = Respond(e)
    /\ UNCHANGED <<cfg, req, auth_answer, authCalls, audio_score, video_score, apc, vpc>>

\* analyze_video: await video.read(); imdecode; the brightness score
VideoScore ==
    /\ pc = "score_video"
    /\ LET r == video_read_and_score(req.video)
           e == IF r.exc = NoExc THEN NoExc ELSE Propagate(analyze_video_except(r.exc))
       IN  /\ trace' = Append(trace, Step("score_video", r.exc = NoExc))
           /\ IF e = NoExc
              THEN pc' = "compose" /\ video_score' = r.value /\ UNCHANGED response
              ELSE pc' = "responded" /\ response' = Respond(e) /\ UNCHANGED video_score
    /\ UNCHANGED <<cfg, req, auth_answer, authCalls, audio_score, apc, vpc>>

\* analyze: the returned dict
Compose ==
    /\ pc = "compose"
    /\ trace' = Append(trace, Step("compose", TRUE))
    /\ response' = OkResponse(verdict(audio_score, video_score, cfg, req.audio, req.video))
    /\ pc' = "responded"
    /\ UNCHANGED <<cfg, req, auth_answer, authCalls, audio_score, video_score, apc, vpc>>

\* the response is sent; the request's values are gone
Finish ==
    /\ pc = "responded"
    /\ apc = "-"
    /\ pc' = "idle"
    /\ req' = NoRequest
    /\ auth_answer' = NoAnswer
    /\ authCalls' = 0
    /\ audio_score' = -1
    /\ video_score' = -1
    /\ trace' = <<>>
    /\ response' = NoResponse
    /\ UNCHANGED <<cfg, apc, vpc>>

Next ==
    \/ Receive
    \/ HTTPBearerCall
    \/ VerifyToken
    \/ AudioValidate
    \/ AudioScore
    \/ VideoValidate
    \/ VideoScore
    \/ Compose
    \/ Finish

Spec == Init /\ [][Next]_vars

----------------------------------------------------------------------------
(* The verdict of analyze as a function of the two scores and the two      *)
(* thresholds: the inputs are drawn from bounded sets and Compose, the     *)
(* step of the pipeline above, is applied to them.                         *)

\* thousandths around the thresholds; 625 and 875 are exact ties of round(x, 2)
ComposeScores == {200, 499, 504, 600, 625, 696, 704, 750, 875}
ComposeThresholds == {500, 700, 750}

ComposeRequests ==
    {r \in Requests :
        /\ r.creds = "bearer"
        /\ r.audio = [content_type |-> "audio/wav", size |-> MAX_FILE_SIZE, payload |-> "bytes"]
        /\ r.video.content_type = "image/png"
        /\ r.video.size = MAX_FILE_SIZE
        /\ r.video.payload \in PixelMeans}

ComposeInit ==
    /\ cfg \in [MIN_AUDIO_SCORE : ComposeThresholds, MIN_VIDEO_SCORE : ComposeThresholds]
    /\ pc = "compose"
    /\ req \in ComposeRequests
    /\ auth_answer = [kind |-> "response", status |-> HTTP_200_OK]
    /\ authCalls = 1
    /\ audio_score \in ComposeScores
    /\ video_score \in ComposeScores
    /\ trace = <<>>
    /\ response = NoResponse
    /\ apc = "-"
    /\ vpc = "-"

ComposeNext == Compose

ComposeSpec == ComposeInit /\ [][ComposeNext]_vars

----------------------------------------------------------------------------
(* The variant of section 5 of the design: the audio call and the video    *)
(* call of analyze run concurrently, each made of the steps of             *)
(* analyze_audio / analyze_video above; the first exception to leave       *)
(* either call is the one analyze leaves with, and the verdict is composed *)
(* when both calls have returned.                                          *)

ConcInit ==
    /\ cfg \in Configs
    /\ pc = "concurrent"
    /\ req \in {r \in Requests : r.creds = "bearer"}
    /\ auth_answer = [kind |-> "response", status |-> HTTP_200_OK]
    /\ authCalls = 1
    /\ audio_score = -1
    /\ video_score = -1
    /\ trace = <<>>
    /\ response = NoResponse
    /\ apc = "validate"
    /\ vpc = "validate"

ConcAudioValidate ==
    /\ pc = "concurrent"
    /\ apc = "validate"
    /\ LET raw == validate_file(req.audio, "audio")
           e == IF raw = NoExc THEN NoExc ELSE Propagate(analyze_audio_except(raw))
       IN  /\ trace' = Append(trace, Step("validate_audio", raw = NoExc))
           /\ IF e = NoExc
              THEN apc' = "score" /\ UNCHANGED <<pc, response>>
              ELSE apc' = "failed" /\ pc' = "responded" /\ response' = Respond(e)
    /\ UNCHANGED <<cfg, req, auth_answer, authCalls, audio_score, video_score, vpc>>

ConcAudioScore ==
    /\ pc = "concurrent"
    /\ apc = "score"
    /\ LET r == audio_read_and_score(req.audio)
           e == IF r.exc = NoExc THEN NoExc ELSE Propagate(analyze_audio_except(r.exc))
       IN  /\ trace' = Append(trace, Step("score_audio", r.exc = NoExc))
           /\ IF e = NoExc
              THEN apc' = "done" /\ audio_score' = r.value /\ UNCHANGED <<pc, response>>
              ELSE /\ apc' = "failed"
                   /\ pc' = "responded"
                   /\ response' = Respond(e)
                   /\ UNCHANGED audio_score
    /\ UNCHANGED <<cfg, req, auth_answer, authCalls, video_score, vpc>>

ConcVideoValidate ==
    /\ pc = "concurrent"
    /\ vpc = "validate"
    /\ LET raw == validate_file(req.video, "video")
           e == IF raw = NoExc THEN NoExc ELSE Propagate(analyze_video_except(raw))
       IN  /\ trace' = Append(trace, Step("validate_video", raw = NoExc))
           /\ IF e = NoExc
              THEN vpc' = "score" /\ UNCHANGED <<pc, response>>
              ELSE vpc' = "failed" /\ pc' = "responded" /\ response' = Respond(e)
    /\ UNCHANGED <<cfg, req, auth_answer, authCalls, audio_score, video_score, apc>>

ConcVideoScore ==
    /\ pc = "concurrent"
    /\ vpc = "score"
    /\ LET r == video_read_and_score(req.video)
           e == IF r.exc = NoExc THEN NoExc ELSE Propagate(analyze_video_except(r.exc))
       IN  /\ trace' = Append(trace, Step("score_video", r.exc = NoExc))
           /\ IF e = NoExc
              THEN vpc' = "done" /\ video_score' = r.value /\ UNCHANGED <<pc, response>>
              ELSE /\ vpc' = "failed"
                   /\ pc' = "responded"
                   /\ response' = Respond(e)
                   /\ UNCHANGED video_score
    /\ UNCHANGED <<cfg, req, auth_answer, authCalls, audio_score, apc>>

ConcCompose ==
    /\ pc = "concurrent"
    /\ apc = "done"
    /\ vpc = "done"
    /\ trace' = Append(trace, Step("compose", TRUE))
    /\ response' = OkResponse(verdict(audio_score, video_score, cfg, req.audio, req.video))
    /\ pc' = "responded"
    /\ UNCHANGED <<cfg, req, auth_answer, authCalls, audio_score, video_score, apc, vpc>>

ConcNext ==
    \/ ConcAudioValidate
    \/ ConcAudioScore
    \/ ConcVideoValidate
    \/ ConcVideoScore
    \/ ConcCompose

ConcSpec == ConcInit /\ [][ConcNext]_vars

----------------------------------------------------------------------------
(* Properties *)

InTrace(name) == \E i \in DOMAIN trace : trace[i].step = name
StepOk(name) == \E i \in DOMAIN trace : trace[i].step = name /\ trace[i].ok
StepFailed(name) == \E i \in DOMAIN trace : trace[i].step = name /\ ~trace[i].ok
TypeAllowed(file, modality) ==
    file.content_type \in (IF modality = "audio" THEN ALLOWED_AUDIO_TYPES ELSE ALLOWED_VIDEO_TYPES)
Answered == pc = "responded"
FileSteps == {"validate_audio", "score_audio", "validate_video", "score_video"}

\* C1: a 200 response has alert true when the unrounded audio score exceeds
\* MIN_AUDIO_SCORE, true when the unrounded video score exceeds
\* MIN_VIDEO_SCORE, and false when neither does (a score equal to its
\* threshold does not exceed it); the scores it reports have two decimals.
C1_AlertIsOrOfUnrounded ==
    (Answered /\ response.status = HTTP_200_OK) =>
        LET v == response.verdict[1]
        IN  /\ (audio_score > cfg.MIN_AUDIO_SCORE => v.alert)
            /\ (video_score > cfg.MIN_VIDEO_SCORE => v.alert)
            /\ ((audio_score <= cfg.MIN_AUDIO_SCORE /\ video_score <= cfg.MIN_VIDEO_SCORE)
                    => ~v.alert)
            /\ v.scores.audio % 10 = 0
            /\ v.scores.video % 10 = 0
            /\ v.thresholds.audio = cfg.MIN_AUDIO_SCORE
            /\ v.thresholds.video = cfg.MIN_VIDEO_SCORE

\* audio alone raises the alert, by 0.704 > 0.7, although the reported 0.70 does not exceed 0.7
C1_Witness ==
    /\ Answered
    /\ response.status = HTTP_200_OK
    /\ audio_score = 704
    /\ cfg.MIN_AUDIO_SCORE = 700
    /\ video_score <= cfg.MIN_VIDEO_SCORE
    /\ response.verdict[1].alert
    /\ response.verdict[1].scores.audio = 700

\* C2: a request whose token is missing, or which the delegate answers with a
\* non-200 status, is answered 401 with no validate, read or score step run.
C2_Unauthorized401BeforeFiles ==
    (Answered /\ (req.creds # "bearer"
                    \/ (auth_answer.kind = "response" /\ auth_answer.status # HTTP_200_OK))) =>
        /\ response.status = HTTP_401_UNAUTHORIZED
        /\ \A i \in DOMAIN trace : trace[i].step \notin FileSteps

\* C3: when the delegate times out or cannot be reached the request is
\* answered 503, after exactly one GET /validate; no request issues more than
\* one, and every request past verify_token has issued its own.
C3_DelegateDown503Once ==
    /\ (auth_answer.kind \in {"Timeout", "ConnectionError"} =>
            /\ Answered
            /\ response.status = HTTP_503_SERVICE_UNAVAILABLE
            /\ response.verdict = <<>>
            /\ authCalls = 1)
    /\ authCalls <= 1
    /\ (InTrace("verify_token") => authCalls = 1)
    /\ (InTrace("validate_audio") => authCalls = 1 /\ auth_answer.status = HTTP_200_OK)

C3_Witness ==
    /\ Answered
    /\ auth_answer.kind = "Timeout"
    /\ response.status = HTTP_503_SERVICE_UNAVAILABLE
    /\ authCalls = 1

\* C4: a file validate_file was applied to with a content type outside its
\* modality's allow-list is rejected with 400, whatever its size and payload.
C4_DisallowedType400 ==
    /\ ((InTrace("validate_audio") /\ ~TypeAllowed(req.audio, "audio")) =>
            /\ Answered
            /\ response.status = HTTP_400_BAD_REQUEST
            /\ trace[Len(trace)] = Step("validate_audio", FALSE))
    /\ ((InTrace("validate_video") /\ ~TypeAllowed(req.video, "video")) =>
            /\ Answered
            /\ response.status = HTTP_400_BAD_REQUEST
            /\ trace[Len(trace)] = Step("validate_video", FALSE))

\* a video of a disallowed type that is also too large: 400, not 413
C4_Witness ==
    /\ Answered
    /\ InTrace("validate_video")
    /\ ~TypeAllowed(req.video, "video")
    /\ req.video.size > MAX_FILE_SIZE
    /\ response.status = HTTP_400_BAD_REQUEST

\* C5: a file of an allowed type validate_file was applied to is rejected
\* with 413 when its length exceeds MAX_FILE_SIZE and accepted when its
\* length is MAX_FILE_SIZE or less.
C5_TooLarge413 ==
    /\ ((InTrace("validate_audio") /\ TypeAllowed(req.audio, "audio")) =>
            IF req.audio.size > MAX_FILE_SIZE
            THEN /\ Answered
                 /\ response.status = HTTP_413_REQUEST_ENTITY_TOO_LARGE
                 /\ trace[Len(trace)] = Step("validate_audio", FALSE)
            ELSE StepOk("validate_audio"))
    /\ ((InTrace("validate_video") /\ TypeAllowed(req.video, "video")) =>
            IF req.video.size > MAX_FILE_SIZE
            THEN /\ Answered
                 /\ response.status = HTTP_413_REQUEST_ENTITY_TOO_LARGE
                 /\ trace[Len(trace)] = Step("validate_video", FALSE)
            ELSE StepOk("validate_video"))

\* an audio file of exactly MAX_FILE_SIZE bytes accepted, a video one byte longer rejected
C5_Witness ==
    /\ Answered
    /\ req.audio.size = MAX_FILE_SIZE
    /\ StepOk("validate_audio")
    /\ TypeAllowed(req.video, "video")
    /\ req.video.size = MAX_FILE_SIZE + 1
    /\ response.status = HTTP_413_REQUEST_ENTITY_TOO_LARGE

FileValid(file, modality) == TypeAllowed(file, modality) /\ file.size <= MAX_FILE_SIZE

PipelineOrder ==
    <<"security", "verify_token", "validate_audio", "score_audio", "validate_video",
      "score_video", "compose">>

C7_FailureEndsRequest ==
    /\ \A i \in DOMAIN trace :
          ~trace[i].ok =>
              /\ i = Len(trace)
              /\ Answered
              /\ response.status # HTTP_200_OK
              /\ response.status # 0
              /\ response.verdict = <<>>
    /\ (response.verdict # <<>> =>
            /\ response.status = HTTP_200_OK
            /\ Len(trace) = Len(PipelineOrder)
            /\ \A i \in DOMAIN trace : trace[i].ok
            /\ FileValid(req.audio, "audio")
            /\ FileValid(req.video, "video")
            /\ req.audio.payload = "bytes"
            /\ req.video.payload \in PixelMeans)
    /\ (response.status = HTTP_200_OK => response.verdict # <<>>)

\* the audio file was scored, the video does not decode: a 500 without a verdict
C7_Witness ==
    /\ Answered
    /\ audio_score = AUDIO_STUB_SCORE
    /\ req.video.payload = "not_image"
    /\ trace[Len(trace)] = Step("score_video", FALSE)
    /\ response.status = HTTP_500_INTERNAL_SERVER_ERROR
    /\ response.verdict = <<>>

\* C8: an error of the auth or validation steps reaches the client with its
\* own status (401 or 503; 400 or 413), every other failure is a 500, and
\* every response has a status in {200, 400, 401, 413, 500, 503}.
C8_ErrorClassesKept ==
    Answered =>
        /\ response.status \in {HTTP_200_OK, HTTP_400_BAD_REQUEST, HTTP_401_UNAUTHORIZED,
                                HTTP_413_REQUEST_ENTITY_TOO_LARGE,
                                HTTP_500_INTERNAL_SERVER_ERROR, HTTP_503_SERVICE_UNAVAILABLE}
        /\ (StepFailed("security") => response.status = HTTP_401_UNAUTHORIZED)
        /\ (StepFailed("verify_token") =>
                response.status = (IF auth_answer.kind = "response"
                                   THEN HTTP_401_UNAUTHORIZED
                                   ELSE HTTP_503_SERVICE_UNAVAILABLE))
        /\ (StepFailed("validate_audio") =>
                response.status = (IF TypeAllowed(req.audio, "audio")
                                   THEN HTTP_413_REQUEST_ENTITY_TOO_LARGE
                                   ELSE HTTP_400_BAD_REQUEST))
        /\ (StepFailed("validate_video") =>
                response.status = (IF TypeAllowed(req.video, "video")
                                   THEN HTTP_413_REQUEST_ENTITY_TOO_LARGE
                                   ELSE HTTP_400_BAD_REQUEST))
        /\ ((StepFailed("score_audio") \/ StepFailed("score_video")) =>
                response.status = HTTP_500_INTERNAL_SERVER_ERROR)

\* C8 without the requests HTTPBearer rejects itself (these are C2's): the
\* part of C8 that is about the errors raised in verify_token and analyze.
C8_ErrorClassesKeptPastSecurity ==
    (Answered /\ req.creds = "bearer") => C8_ErrorClassesKept

\* C9 as stated: the concurrent run answers what the sequential handler answers.
C9_ConcurrentSameAsSequential ==
    Answered => response = analyze(req, cfg)

\* C9 amended: the concurrent run answers what the sequential handler
\* answers unless both calls fail; then it answers with the error of the
\* call that failed first, which is the sequential answer (the audio call's
\* error) or the video call's error.
C9_ConcurrentSameUnlessBothFail ==
    Answered =>
        LET a == analyze_audio(req.audio)
            v == analyze_video(req.video)
        IN  response # analyze(req, cfg) =>
                /\ a.exc # NoExc
                /\ v.exc # NoExc
                /\ vpc = "failed"
                /\ response = ErrorResponse(v.exc)

\* audio of a disallowed type, video too large, video validated first: 413 where analyze answers 400
C9_Witness ==
    /\ Answered
    /\ analyze_audio(req.audio).exc.status = HTTP_400_BAD_REQUEST
    /\ analyze_video(req.video).exc.status = HTTP_413_REQUEST_ENTITY_TOO_LARGE
    /\ response.status = HTTP_413_REQUEST_ENTITY_TOO_LARGE
    /\ analyze(req, cfg).status = HTTP_400_BAD_REQUEST

\* C10: under the default thresholds every 200 response has alert true,
\* whatever the image; a 200 response with alert false has MIN_AUDIO_SCORE
\* at 0.75 or more.
C10_DefaultsAlwaysAlert ==
    (Answered /\ response.status = HTTP_200_OK) =>
        /\ (cfg = DefaultConfig => response.verdict[1].alert)
        /\ (~response.verdict[1].alert => cfg.MIN_AUDIO_SCORE >= 750)
        /\ response.verdict[1].scores.audio = 750
        /\ response.verdict[1].scores.video =
              (IF req.video.payload = "mean99" THEN 600 ELSE 200)

\* a bright image, video score 0.2, and the alert is raised by the audio score alone
C10_Witness ==
    /\ Answered
    /\ response.status = HTTP_200_OK
    /\ cfg = DefaultConfig
    /\ req.video.payload = "mean100"
    /\ video_score = VIDEO_BRIGHT_SCORE
    /\ response.verdict[1].alert

====
